---- MODULE Spec2Model ----
(***************************************************************************)
(* Model of server.py of DivoomDND: the confined static-file HTTP server.  *)
(*   - SecureHTTPRequestHandler.translate_path  (path confinement)         *)
(*   - ServerThread   (run / stop / wait_for_startup / url)                *)
(*   - ServerWorker   (QThread facade: start_server / stop_server / run)   *)
(* Specifications:                                                         *)
(*   Spec            the ServerWorker driven by a host issuing commands    *)
(*   DirectSpec      a caller using the ServerThread API directly          *)
(*   FairDirectSpec  DirectSpec with the scheduler's fairness              *)
(*   PathSpec        translate_path applied to bounded raw request paths   *)
(***************************************************************************)
EXTENDS Integers, Sequences, FiniteSets, TLC

(***************************************************************************)
(* Bounds of the model.                                                    *)
(***************************************************************************)
MaxThreads == 2     \* ServerThread instances constructed in one behaviour
MaxCmds == 3        \* commands the host issues to the ServerWorker
MaxCalls == 6       \* method calls of the direct API caller

(***************************************************************************)
(* Inputs.                                                                 *)
(***************************************************************************)
FixedPort == 8000
Ports == {0, FixedPort}            \* 0 asks the kernel for an ephemeral port
Dirs == {"public", "missing", "afile"}

\* Path.exists() and Path.is_dir() of ServerThread.__init__
DirExists(d) == d \in {"public", "afile"}
DirIsDir(d) == d = "public"

\* bind addresses: the default of ServerThread.__init__ and http_server, the
\* wildcard, the empty string (also the wildcard), a host name, another address
DefaultBindAddress == "127.0.0.1"
BindAddresses == {"127.0.0.1", "0.0.0.0", "", "localhost", "192.168.1.5"}

VARIABLES
    threads,    \* sequence of ServerThread instances (records)
    timewait,   \* ports with connections lingering in TIME_WAIT
    call,       \* frame of the ServerThread method call in progress
    worker,     \* the ServerWorker (QThread) and the position of its run()
    cmds,       \* commands issued by the host to the ServerWorker, in order
    notes,      \* notifications emitted by the ServerWorker, in order
    delivered,  \* how many notifications the host has handled
    dcalls,     \* number of method calls the direct caller has made
    gui,        \* the main window: server_running and its two server buttons
    preq,       \* raw request path given to translate_path
    pres        \* string returned by translate_path (<<>> before the call)

vars == <<threads, timewait, call, worker, cmds, notes, delivered, dcalls, gui, preq, pres>>
lifeVars == <<threads, timewait, call, worker, cmds, notes, delivered, dcalls, gui>>
pathVars == <<gui, preq, pres>>

Tids == 1..Len(threads)

(***************************************************************************)
(* ServerThread                                                            *)
(***************************************************************************)
\* ServerThread.__init__ : the fields set at construction, plus the state of
\* the HTTPServer the thread will own (socket, shutdown flags)
NewThread(owner, req, d, p, a) ==
    [owner |-> owner, req |-> req, directory |-> d, port |-> p,
     bind_address |-> a,
     stop_event |-> FALSE, httpd |-> FALSE, server_started |-> FALSE,
     error |-> "none", pc |-> "new",
     sock |-> "none", actual_port |-> 0,
     shutdown_request |-> FALSE, is_shut_down |-> FALSE,
     served |-> FALSE,
     \* history: what blocked the bind, whether every earlier instance bound to
     \* the port had been stopped by then, whether the port was in TIME_WAIT,
     \* whether a stop() on this instance, once started, has returned True
     blocker |-> 0, clear |-> FALSE, tw_at_bind |-> FALSE, stop_ok |-> FALSE]

\* ServerThread.__init__ raises for a directory that is missing or no directory
CtorErrorExistsOnly(d) ==
    IF ~DirExists(d) THEN "FileNotFoundError"
    ELSE "none"
CtorError(d) ==
    IF ~DirExists(d) THEN "FileNotFoundError"
    ELSE IF ~DirIsDir(d) THEN "NotADirectoryError"
    ELSE "none"

\* threading.Thread.is_alive(): started and run() not yet terminated
IsAliveOnceStarted(t) == threads[t].pc # "new"
IsAlive(t) == threads[t].pc \notin {"new", "done"}

\* the port the kernel binds for a requested port
\* (an ephemeral port is free and differs from one instance to the next)
ActualPort(t) == IF threads[t].port = 0 THEN FixedPort + t ELSE threads[t].port

\* socket.getsockname()[0] of a socket bound to address a, which server_bind()
\* stores as httpd.server_address: the empty string binds the wildcard, a host
\* name is resolved
SockName(a) ==
    CASE a = "" -> "0.0.0.0"
      [] a = "localhost" -> "127.0.0.1"
      [] OTHER -> a

\* two bound addresses collide on one port if equal or if either is the wildcard
AddrOverlap(a, b) == a = b \/ a = "0.0.0.0" \/ b = "0.0.0.0"

\* the instances whose listening socket is open on port p at an address that
\* collides with a
Listeners(p, a) ==
    {u \in Tids : /\ threads[u].sock = "open" /\ threads[u].actual_port = p
                  /\ AddrOverlap(SockName(threads[u].bind_address), SockName(a))}

\* http.server.HTTPServer.allow_reuse_address: SO_REUSEADDR is set in
\* server_bind() before bind()
AllowReuseAddressOff == FALSE
AllowReuseAddress == TRUE

\* outcome of bind() for instance t: 0 if it succeeds, else what blocks it
\* (the listening instance, or -1 for connections in TIME_WAIT)
BindBlocker(t) ==
    LET p == ActualPort(t) IN
    IF Listeners(p, threads[t].bind_address) # {}
    THEN CHOOSE u \in Listeners(p, threads[t].bind_address) : TRUE
    ELSE IF p \in timewait /\ ~AllowReuseAddress THEN -1
    ELSE 0

\* every other instance that bound the port of t has had stop() return True
PortClear(t) ==
    \A u \in Tids \ {t} :
        (threads[u].sock # "none" /\ threads[u].actual_port = ActualPort(t))
            => threads[u].stop_ok

Upd(t, r) == threads' = [threads EXCEPT ![t] = r]

\* a URL string "http://<host>:<port>" as its two parts; None is <<>>
None == <<>>
HttpUrl(host, port) == <<"http://", host, ":", port>>

\* ServerThread.url: None unless self.httpd is set, else built from
\* httpd.server_address with localhost for 127.0.0.1 and 0.0.0.0
UrlOfBindAddress(t) ==
    IF threads[t].httpd
    THEN LET host == threads[t].bind_address
             port == threads[t].actual_port
         IN HttpUrl(IF host \in {"127.0.0.1", "0.0.0.0"} THEN "localhost" ELSE host,
                    port)
    ELSE None
Url(t) ==
    IF threads[t].httpd
    THEN LET host == SockName(threads[t].bind_address)
             port == threads[t].actual_port
         IN HttpUrl(IF host \in {"127.0.0.1", "0.0.0.0"} THEN "localhost" ELSE host,
                    port)
    ELSE None

\* run(), line 77: HTTPServer(server_address, handler_class) creates, binds and
\* listens; a failed bind raises into the except clause
Run_Bind(t) ==
    /\ threads[t].pc = "start"
    /\ LET b == BindBlocker(t)
           r == [threads[t] EXCEPT !.clear = PortClear(t),
                                   !.tw_at_bind = (ActualPort(t) \in timewait)]
       IN
       IF b = 0
       THEN Upd(t, [r EXCEPT !.sock = "open", !.actual_port = ActualPort(t),
                             !.pc = "bound"])
       ELSE Upd(t, [r EXCEPT !.blocker = b, !.pc = "except1"])
    /\ UNCHANGED <<timewait, call, worker, cmds, notes, delivered, dcalls, gui, preq, pres>>

\* run(), lines 77-82: the constructed server is assigned to self.httpd, then
\* setsockopt and the log line
Run_Assign(t) ==
    /\ threads[t].pc = "bound"
    /\ Upd(t, [threads[t] EXCEPT !.httpd = TRUE, !.pc = "assigned"])
    /\ UNCHANGED <<timewait, call, worker, cmds, notes, delivered, dcalls, gui, preq, pres>>

\* run(), line 83: self._server_started.set()
Run_Signal(t) ==
    /\ threads[t].pc = "assigned"
    /\ Upd(t, [threads[t] EXCEPT !.server_started = TRUE, !.pc = "serve"])
    /\ UNCHANGED <<timewait, call, worker, cmds, notes, delivered, dcalls, gui, preq, pres>>

\* run(), line 86: serve_forever() is entered; it clears its is-shut-down event
Serve_Enter(t) ==
    /\ threads[t].pc = "serve"
    /\ Upd(t, [threads[t] EXCEPT !.is_shut_down = FALSE, !.pc = "loop"])
    /\ UNCHANGED <<timewait, call, worker, cmds, notes, delivered, dcalls, gui, preq, pres>>

\* serve_forever(): a connection is ready and no shutdown is requested; the
\* request is handled inline by the serving thread
Serve_Accept(t) ==
    /\ threads[t].pc = "loop"
    /\ ~threads[t].shutdown_request
    /\ Upd(t, [threads[t] EXCEPT !.served = TRUE, !.pc = "handling"])
    /\ UNCHANGED <<timewait, call, worker, cmds, notes, delivered, dcalls, gui, preq, pres>>

\* the request handler returns and the server closes the connection, which
\* lingers in TIME_WAIT on the listening port
Serve_Finish(t) ==
    /\ threads[t].pc = "handling"
    /\ Upd(t, [threads[t] EXCEPT !.pc = "loop"])
    /\ timewait' = timewait \cup {threads[t].actual_port}
    /\ UNCHANGED <<call, worker, cmds, notes, delivered, dcalls, gui, preq, pres>>

\* where the serving thread continues when the request handler raised an
\* exception: socketserver's _handle_request_noblock catches it, calls
\* handle_error and shutdown_request, and the serve loop goes on
HandlerErrorPropagates == "except1"
HandlerErrorTarget == "loop"

\* the request handler raises (translate_path lets a RuntimeError of
\* Path.resolve() through, the client resets the connection, ...)
Serve_HandlerError(t) ==
    /\ threads[t].pc = "handling"
    /\ Upd(t, [threads[t] EXCEPT !.pc = HandlerErrorTarget])
    /\ timewait' = timewait \cup {threads[t].actual_port}
    /\ UNCHANGED <<call, worker, cmds, notes, delivered, dcalls, gui, preq, pres>>

\* serve_forever() sees the shutdown request, leaves its loop and sets the
\* is-shut-down event; run() returns
Serve_Exit(t) ==
    /\ threads[t].pc = "loop"
    /\ threads[t].shutdown_request
    /\ Upd(t, [threads[t] EXCEPT !.shutdown_request = FALSE, !.is_shut_down = TRUE,
                                  !.pc = "ret"])
    /\ UNCHANGED <<timewait, call, worker, cmds, notes, delivered, dcalls, gui, preq, pres>>

\* run(), lines 88-91: the two effects of the except clause, in program order
ExceptOrderSwapped == <<"signal", "record">>
ExceptOrderNoSignal == <<"record", "nothing">>
ExceptOrder == <<"record", "signal">>

ExceptEffect(r, e) ==
    IF e = "record" THEN [r EXCEPT !.error = "bind"]
    ELSE IF e = "signal" THEN [r EXCEPT !.server_started = TRUE]
    ELSE r

\* run(), line 89: self.error = e
Run_Except1(t) ==
    /\ threads[t].pc = "except1"
    /\ Upd(t, [ExceptEffect(threads[t], ExceptOrder[1]) EXCEPT !.pc = "except2"])
    /\ UNCHANGED <<timewait, call, worker, cmds, notes, delivered, dcalls, gui, preq, pres>>

\* run(), line 91: self._server_started.set(), then run() returns
Run_Except2(t) ==
    /\ threads[t].pc = "except2"
    /\ Upd(t, [ExceptEffect(threads[t], ExceptOrder[2]) EXCEPT !.pc = "ret"])
    /\ UNCHANGED <<timewait, call, worker, cmds, notes, delivered, dcalls, gui, preq, pres>>

\* the thread terminates after run() returned: is_alive() becomes False
Thread_Exit(t) ==
    /\ threads[t].pc = "ret"
    /\ Upd(t, [threads[t] EXCEPT !.pc = "done"])
    /\ UNCHANGED <<timewait, call, worker, cmds, notes, delivered, dcalls, gui, preq, pres>>

\* the kernel drops the TIME_WAIT connections of a port
TimeWait_Expire(p) ==
    /\ p \in timewait
    /\ timewait' = timewait \ {p}
    /\ UNCHANGED <<threads, call, worker, cmds, notes, delivered, dcalls, gui, preq, pres>>

\* the steps of the ServerThread instances and of the kernel
ThreadStep ==
    \/ \E t \in Tids : Run_Bind(t)
    \/ \E t \in Tids : Run_Assign(t)
    \/ \E t \in Tids : Run_Signal(t)
    \/ \E t \in Tids : Serve_Enter(t)
    \/ \E t \in Tids : Serve_Accept(t)
    \/ \E t \in Tids : Serve_Finish(t)
    \/ \E t \in Tids : Serve_HandlerError(t)
    \/ \E t \in Tids : Serve_Exit(t)
    \/ \E t \in Tids : Run_Except1(t)
    \/ \E t \in Tids : Run_Except2(t)
    \/ \E t \in Tids : Thread_Exit(t)
    \/ \E p \in timewait : TimeWait_Expire(p)

(***************************************************************************)
(* ServerThread.stop and ServerThread.wait_for_startup, executed by the     *)
(* calling thread; `call` is the frame of the call in progress.             *)
(***************************************************************************)
NoCall ==
    [op |-> "none", t |-> 0, pc |-> "none", log |-> <<>>, res |-> "none",
     pre_alive |-> FALSE, pre_httpd |-> FALSE, timedout |-> FALSE, done_at_ret |-> FALSE]

Frame(op, t, pc) ==
    [NoCall EXCEPT !.op = op, !.t = t, !.pc = pc,
                   !.pre_alive = IsAlive(t), !.pre_httpd = threads[t].httpd]

\* stop(), lines 95-99: the guard on is_alive(), then self._stop_event.set()
Stop_Enter(t) ==
    IF ~IsAlive(t)
    THEN /\ call' = [Frame("stop", t, "returned") EXCEPT !.res = "True"]
         /\ UNCHANGED threads
    ELSE /\ call' = Frame("stop", t, "shutdown")
         /\ Upd(t, [threads[t] EXCEPT !.stop_event = TRUE])

\* stop(), lines 101-103: if self.httpd, shutdown() raises the request flag of
\* the serve loop (and then blocks, see Stop_ShutdownWait)
Stop_Shutdown ==
    /\ call.op = "stop" /\ call.pc = "shutdown"
    /\ IF threads[call.t].httpd
       THEN /\ Upd(call.t, [threads[call.t] EXCEPT !.shutdown_request = TRUE])
            /\ call' = [call EXCEPT !.pc = "wait_shut", !.log = Append(@, "shutdown")]
       ELSE /\ call' = [call EXCEPT !.pc = "join"]
            /\ UNCHANGED threads
    /\ UNCHANGED <<timewait, worker, cmds, notes, delivered, dcalls, gui, preq, pres>>

\* stop(), line 103: shutdown() returns once serve_forever() has set its
\* is-shut-down event; it has no timeout
Stop_ShutdownWait ==
    /\ call.op = "stop" /\ call.pc = "wait_shut"
    /\ threads[call.t].is_shut_down
    /\ call' = [call EXCEPT !.pc = "close", !.log = Append(@, "serve_returned")]
    /\ UNCHANGED <<threads, timewait, worker, cmds, notes, delivered, dcalls, gui, preq, pres>>

\* stop(), line 104: server_close() closes the listening socket
Stop_NoClose ==
    /\ call.op = "stop" /\ call.pc = "close"
    /\ call' = [call EXCEPT !.pc = "join", !.log = Append(@, "close")]
    /\ UNCHANGED <<threads, timewait, worker, cmds, notes, delivered, dcalls, gui, preq, pres>>

Stop_Close ==
    /\ call.op = "stop" /\ call.pc = "close"
    /\ Upd(call.t, [threads[call.t] EXCEPT !.sock = "closed"])
    /\ call' = [call EXCEPT !.pc = "join", !.log = Append(@, "close")]
    /\ UNCHANGED <<timewait, worker, cmds, notes, delivered, dcalls, gui, preq, pres>>

\* stop(), line 107: join(timeout) returns when the thread has terminated, or
\* when the timeout elapses first
Stop_Join ==
    /\ call.op = "stop" /\ call.pc = "join"
    /\ \/ /\ ~IsAlive(call.t)
          /\ call' = [call EXCEPT !.pc = "check", !.log = Append(@, "join")]
       \/ /\ IsAlive(call.t)
          /\ call' = [call EXCEPT !.pc = "check", !.log = Append(@, "join"),
                                  !.timedout = TRUE]
    /\ UNCHANGED <<threads, timewait, worker, cmds, notes, delivered, dcalls, gui, preq, pres>>

\* stop(), lines 109-114: the value returned after the join
StopResultAlways(alive) == "True"
StopResult(alive) == IF alive THEN "False" ELSE "True"

Stop_Return ==
    /\ call.op = "stop" /\ call.pc = "check"
    /\ call' = [call EXCEPT !.pc = "returned", !.res = StopResult(IsAlive(call.t)),
                            !.done_at_ret = ~IsAlive(call.t)]
    /\ UNCHANGED <<threads, timewait, worker, cmds, notes, delivered, dcalls, gui, preq, pres>>

\* wait_for_startup(), line 118: the wait on the startup event succeeds
Wait_Observe ==
    /\ call.op = "wait" /\ call.pc = "wait"
    /\ threads[call.t].server_started
    /\ call' = [call EXCEPT !.pc = "check"]
    /\ UNCHANGED <<threads, timewait, worker, cmds, notes, delivered, dcalls, gui, preq, pres>>

\* wait_for_startup(), lines 118 and 123: the timeout elapses with the event
\* unset and TimeoutError is raised
Wait_Timeout ==
    /\ call.op = "wait" /\ call.pc = "wait"
    /\ ~threads[call.t].server_started
    /\ call' = [call EXCEPT !.pc = "returned", !.res = "TimeoutError", !.timedout = TRUE]
    /\ UNCHANGED <<threads, timewait, worker, cmds, notes, delivered, dcalls, gui, preq, pres>>

\* wait_for_startup(), lines 119-121: raise the recorded error, else True
WaitResultIgnoresError(r) == "True"
WaitResult(r) == IF r.error # "none" THEN "OSError" ELSE "True"

Wait_Check ==
    /\ call.op = "wait" /\ call.pc = "check"
    /\ call' = [call EXCEPT !.pc = "returned", !.res = WaitResult(threads[call.t])]
    /\ UNCHANGED <<threads, timewait, worker, cmds, notes, delivered, dcalls, gui, preq, pres>>

CallStep ==
    \/ Stop_Shutdown \/ Stop_ShutdownWait \/ Stop_Close \/ Stop_Join \/ Stop_Return
    \/ Wait_Observe \/ Wait_Timeout \/ Wait_Check

\* a stop() that returns True on a started instance leaves its mark (history)
MarkStopped(ths, c) ==
    IF c.op = "stop" /\ c.res = "True" /\ ths[c.t].pc # "new"
    THEN [ths EXCEPT ![c.t].stop_ok = TRUE]
    ELSE ths

(***************************************************************************)
(* A caller that uses the ServerThread API directly (as http_server and    *)
(* the __main__ block do): construct, start, wait_for_startup, stop, in    *)
(* any order, one call at a time.                                          *)
(***************************************************************************)
\* ServerThread(directory, port): raises for an invalid directory, else a new
\* instance that has not been started
D_New(d, p) ==
    /\ call.op = "none" /\ dcalls < MaxCalls /\ Len(threads) < MaxThreads
    /\ dcalls' = dcalls + 1
    /\ IF CtorError(d) = "none"
       THEN threads' = Append(threads, NewThread("direct", 0, d, p, DefaultBindAddress))
       ELSE UNCHANGED threads
    /\ UNCHANGED <<timewait, call, worker, cmds, notes, delivered, gui, preq, pres>>

\* Thread.start() on an instance not yet started
D_Start(t) ==
    /\ call.op = "none" /\ dcalls < MaxCalls
    /\ threads[t].pc = "new"
    /\ dcalls' = dcalls + 1
    /\ Upd(t, [threads[t] EXCEPT !.pc = "start"])
    /\ UNCHANGED <<timewait, call, worker, cmds, notes, delivered, gui, preq, pres>>

D_Stop(t) ==
    /\ call.op = "none" /\ dcalls < MaxCalls
    /\ dcalls' = dcalls + 1
    /\ Stop_Enter(t)
    /\ UNCHANGED <<timewait, worker, cmds, notes, delivered, gui, preq, pres>>

D_Wait(t) ==
    /\ call.op = "none" /\ dcalls < MaxCalls
    /\ dcalls' = dcalls + 1
    /\ call' = Frame("wait", t, "wait")
    /\ UNCHANGED <<threads, timewait, worker, cmds, notes, delivered, gui, preq, pres>>

\* the call returns to the caller
D_Return ==
    /\ call.pc = "returned"
    /\ call' = NoCall
    /\ threads' = MarkStopped(threads, call)
    /\ UNCHANGED <<timewait, worker, cmds, notes, delivered, dcalls, gui, preq, pres>>

WorkerInit ==
    [pc |-> "idle", server |-> 0, operation |-> "none", directory |-> "none",
     port |-> 0, req |-> 0]

\* DivoomDNDGUI.__init__ and setup_ui: server_running is False, the start
\* button is enabled and the stop button disabled; starting records (history)
\* that a start_server was issued and no notification handled since; quit that
\* the application was told to quit
GuiInit ==
    [server_running |-> FALSE, start_enabled |-> TRUE, stop_enabled |-> FALSE,
     starting |-> FALSE, quit |-> FALSE]

LifeInit ==
    /\ gui = GuiInit
    /\ threads = <<>>
    /\ timewait = {}
    /\ call = NoCall
    /\ worker = WorkerInit
    /\ cmds = <<>>
    /\ notes = <<>>
    /\ delivered = 0
    /\ dcalls = 0

NoRequest == [abs |-> TRUE, segs |-> <<>>]
PathIdle == preq = NoRequest /\ pres = <<>>

DirectInit == LifeInit /\ PathIdle

DirectNext ==
    \/ ThreadStep
    \/ CallStep
    \/ \E d \in Dirs, p \in Ports : D_New(d, p)
    \/ \E t \in Tids : D_Start(t)
    \/ \E t \in Tids : D_Stop(t)
    \/ \E t \in Tids : D_Wait(t)
    \/ D_Return

DirectSpec == DirectInit /\ [][DirectNext]_vars

\* ServerThread(directory, port, bind_address) with a bind address given
D_NewAt(d, p, a) ==
    /\ call.op = "none" /\ dcalls < MaxCalls /\ Len(threads) < MaxThreads
    /\ dcalls' = dcalls + 1
    /\ IF CtorError(d) = "none"
       THEN threads' = Append(threads, NewThread("direct", 0, d, p, a))
       ELSE UNCHANGED threads
    /\ UNCHANGED <<timewait, call, worker, cmds, notes, delivered, gui, preq, pres>>

\* the direct caller choosing bind addresses: construct, start and stop, with
\* the steps of run() and stop() (requests and wait_for_startup, which touch
\* neither self.httpd nor the socket's address, are left to DirectSpec)
UrlNext ==
    \/ \E p \in Ports, a \in BindAddresses : D_NewAt("public", p, a)
    \/ \E t \in Tids : D_Start(t)
    \/ \E t \in Tids : D_Stop(t)
    \/ D_Return
    \/ \E t \in Tids : Run_Bind(t)
    \/ \E t \in Tids : Run_Assign(t)
    \/ \E t \in Tids : Run_Signal(t)
    \/ \E t \in Tids : Serve_Enter(t)
    \/ \E t \in Tids : Serve_Exit(t)
    \/ \E t \in Tids : Run_Except1(t)
    \/ \E t \in Tids : Run_Except2(t)
    \/ \E t \in Tids : Thread_Exit(t)
    \/ Stop_Shutdown \/ Stop_ShutdownWait \/ Stop_Close \/ Stop_Join \/ Stop_Return

UrlSpec == DirectInit /\ [][UrlNext]_vars

\* the steps of run() up to its return, which a started thread takes when
\* scheduled (the serve loop leaves only on a shutdown request)
StartupStep(t) ==
    \/ Run_Bind(t) \/ Run_Assign(t) \/ Run_Signal(t)
    \/ Run_Except1(t) \/ Run_Except2(t) \/ Thread_Exit(t)

\* the scheduler runs every started thread, and a caller whose wait can
\* return does return
FairDirectSpec ==
    /\ DirectSpec
    /\ \A t \in 1..MaxThreads : WF_vars(t \in Tids /\ StartupStep(t))
    /\ WF_vars(Wait_Observe)

(***************************************************************************)
(* ServerWorker (QThread) and the host that issues its commands.           *)
(***************************************************************************)
\* the previous command's notification has been handled by the host
PreviousNotified ==
    \/ cmds = <<>>
    \/ \E i \in 1..delivered : notes[i].req = Len(cmds)

StartsIssued == Cardinality({i \in 1..Len(cmds) : cmds[i].kind = "start"})

\* QThread.start(): starts run() on the worker thread, and does nothing while
\* the thread is still running
QThreadStart(w, r) ==
    IF w.pc = "idle" THEN [w EXCEPT !.pc = "dispatch1", !.req = r] ELSE w

\* ServerWorker.start_server(directory, port)
StartCmd(d, p) ==
    /\ Len(cmds) < MaxCmds /\ StartsIssued < MaxThreads
    /\ worker' = QThreadStart([worker EXCEPT !.operation = "start", !.directory = d,
                                             !.port = p], Len(cmds) + 1)
    /\ cmds' = Append(cmds, [kind |-> "start", launched |-> worker.pc = "idle",
                             serial |-> PreviousNotified])
    /\ UNCHANGED <<threads, timewait, call, notes, delivered, dcalls, gui, preq, pres>>

\* ServerWorker.stop_server()
StopCmd ==
    /\ Len(cmds) < MaxCmds
    /\ worker' = QThreadStart([worker EXCEPT !.operation = "stop"], Len(cmds) + 1)
    /\ cmds' = Append(cmds, [kind |-> "stop", launched |-> worker.pc = "idle",
                             serial |-> PreviousNotified])
    /\ UNCHANGED <<threads, timewait, call, notes, delivered, dcalls, gui, preq, pres>>

\* the host's event loop handles the next queued notification
Deliver ==
    /\ delivered < Len(notes)
    /\ delivered' = delivered + 1
    /\ UNCHANGED <<threads, timewait, call, worker, cmds, notes, dcalls, gui, preq, pres>>

\* a notification, with the state of the instance it is about when emitted
Note(kind, t) ==
    [kind |-> kind, req |-> worker.req, port |-> worker.port, t |-> t,
     sock |-> IF t = 0 THEN "none" ELSE threads[t].sock,
     alive |-> IF t = 0 THEN FALSE ELSE IsAlive(t),
     timedout |-> call.timedout]

\* ServerWorker.run(), line 164: if self.operation == "start"
W_Dispatch1 ==
    /\ worker.pc = "dispatch1"
    /\ worker' = [worker EXCEPT !.pc = IF worker.operation = "start" THEN "construct"
                                        ELSE "dispatch2"]
    /\ UNCHANGED <<threads, timewait, call, cmds, notes, delivered, dcalls, gui, preq, pres>>

\* ServerWorker.run(), line 174: elif self.operation == "stop"
W_Dispatch2 ==
    /\ worker.pc = "dispatch2"
    /\ worker' = [worker EXCEPT !.pc = IF worker.operation = "stop" THEN "stop_test"
                                        ELSE "ret"]
    /\ UNCHANGED <<threads, timewait, call, cmds, notes, delivered, dcalls, gui, preq, pres>>

\* ServerWorker.run(), line 166: self.server = ServerThread(directory, port);
\* a constructor error goes to the except clause, line 172
W_ConstructReuse ==
    /\ worker.pc = "construct"
    /\ IF worker.server # 0
       THEN /\ worker' = [worker EXCEPT !.pc = "tstart"]
            /\ UNCHANGED <<threads, notes>>
       ELSE IF CtorError(worker.directory) = "none"
       THEN /\ threads' = Append(threads, NewThread("worker", worker.req,
                                                    worker.directory, worker.port,
                                                    DefaultBindAddress))
            /\ worker' = [worker EXCEPT !.server = Len(threads) + 1, !.pc = "tstart"]
            /\ UNCHANGED notes
       ELSE /\ notes' = Append(notes, Note("error", 0))
            /\ worker' = [worker EXCEPT !.pc = "ret"]
            /\ UNCHANGED threads
    /\ UNCHANGED <<timewait, call, cmds, delivered, dcalls, gui, preq, pres>>

W_Construct ==
    /\ worker.pc = "construct"
    /\ IF CtorError(worker.directory) = "none"
       THEN /\ threads' = Append(threads, NewThread("worker", worker.req,
                                                    worker.directory, worker.port,
                                                    DefaultBindAddress))
            /\ worker' = [worker EXCEPT !.server = Len(threads) + 1, !.pc = "tstart"]
            /\ UNCHANGED notes
       ELSE /\ notes' = Append(notes, Note("error", 0))
            /\ worker' = [worker EXCEPT !.pc = "ret"]
            /\ UNCHANGED threads
    /\ UNCHANGED <<timewait, call, cmds, delivered, dcalls, gui, preq, pres>>

\* ServerWorker.run(), lines 167-168: self.server.start(), then
\* self.server.wait_for_startup() is entered
W_ThreadStart ==
    /\ worker.pc = "tstart"
    /\ Upd(worker.server, [threads[worker.server] EXCEPT !.pc = "start"])
    /\ call' = Frame("wait", worker.server, "wait")
    /\ worker' = [worker EXCEPT !.pc = "wait"]
    /\ UNCHANGED <<timewait, cmds, notes, delivered, dcalls, gui, preq, pres>>

\* ServerWorker.run(), lines 169-172: wait_for_startup() returned True and
\* server_started is emitted, or it raised and server_error is emitted
W_AfterWait ==
    /\ worker.pc = "wait" /\ call.pc = "returned"
    /\ notes' = Append(notes, Note(IF call.res = "True" THEN "started" ELSE "error",
                                   call.t))
    /\ call' = NoCall
    /\ worker' = [worker EXCEPT !.pc = "ret"]
    /\ UNCHANGED <<threads, timewait, cmds, delivered, dcalls, gui, preq, pres>>

\* ServerWorker.run(), lines 176-179: if self.server, stop() is entered;
\* otherwise server_stopped is emitted at once
W_StopTest ==
    /\ worker.pc = "stop_test"
    /\ IF worker.server # 0
       THEN /\ Stop_Enter(worker.server)
            /\ worker' = [worker EXCEPT !.pc = "stopping"]
            /\ UNCHANGED notes
       ELSE /\ notes' = Append(notes, Note("stopped", 0))
            /\ worker' = [worker EXCEPT !.pc = "ret"]
            /\ UNCHANGED <<threads, call>>
    /\ UNCHANGED <<timewait, cmds, delivered, dcalls, gui, preq, pres>>

\* ServerWorker.run(), lines 177-179: stop() returned; self.server = None and
\* server_stopped is emitted
W_AfterStop ==
    /\ worker.pc = "stopping" /\ call.pc = "returned"
    /\ threads' = MarkStopped(threads, call)
    /\ notes' = Append(notes, Note("stopped", call.t))
    /\ call' = NoCall
    /\ worker' = [worker EXCEPT !.server = 0, !.pc = "ret"]
    /\ UNCHANGED <<timewait, cmds, delivered, dcalls, gui, preq, pres>>

\* ServerWorker.run() returns and the QThread finishes
W_Return ==
    /\ worker.pc = "ret"
    /\ worker' = [worker EXCEPT !.pc = "idle"]
    /\ UNCHANGED <<threads, timewait, call, cmds, notes, delivered, dcalls, gui, preq, pres>>

WorkerStep ==
    \/ W_Dispatch1 \/ W_Dispatch2 \/ W_Construct \/ W_ThreadStart \/ W_AfterWait
    \/ W_StopTest \/ W_AfterStop \/ W_Return

Init == LifeInit /\ PathIdle

Next ==
    \/ ThreadStep
    \/ CallStep
    \/ WorkerStep
    \/ \E d \in Dirs, p \in Ports : StartCmd(d, p)
    \/ StopCmd
    \/ Deliver

Spec == Init /\ [][Next]_vars

(***************************************************************************)
(* DivoomDNDGUI: the host of the ServerWorker in the application. Its       *)
(* methods run on the GUI thread, one at a time; a disabled button emits    *)
(* no click.                                                                *)
(***************************************************************************)
\* start_server(), line 258: self.start_server_button.setEnabled(False)
StartButtonLeftEnabled == TRUE
StartButtonWhileStarting == FALSE

\* DivoomDNDGUI.start_server, on a click of the start button: returns if
\* server_running or if the directory is empty or does not exist, else
\* disables the start button and calls server_worker.start_server
G_StartServer(d, p) ==
    /\ ~gui.quit /\ gui.start_enabled
    /\ Len(cmds) < MaxCmds /\ StartsIssued < MaxThreads
    /\ IF gui.server_running \/ ~DirExists(d)
       THEN UNCHANGED <<worker, cmds, gui>>
       ELSE /\ gui' = [gui EXCEPT !.start_enabled = StartButtonWhileStarting,
                                  !.starting = TRUE]
            /\ worker' = QThreadStart([worker EXCEPT !.operation = "start",
                                                     !.directory = d, !.port = p],
                                      Len(cmds) + 1)
            /\ cmds' = Append(cmds, [kind |-> "start", launched |-> worker.pc = "idle",
                                     serial |-> PreviousNotified])
    /\ UNCHANGED <<threads, timewait, call, notes, delivered, dcalls, preq, pres>>

\* DivoomDNDGUI.stop_server, on a click of the stop button: returns unless
\* server_running, else disables the stop button and calls
\* server_worker.stop_server
G_StopServer ==
    /\ ~gui.quit /\ gui.stop_enabled
    /\ Len(cmds) < MaxCmds
    /\ IF ~gui.server_running
       THEN UNCHANGED <<worker, cmds, gui>>
       ELSE /\ gui' = [gui EXCEPT !.stop_enabled = FALSE]
            /\ worker' = QThreadStart([worker EXCEPT !.operation = "stop"], Len(cmds) + 1)
            /\ cmds' = Append(cmds, [kind |-> "stop", launched |-> worker.pc = "idle",
                                     serial |-> PreviousNotified])
    /\ UNCHANGED <<threads, timewait, call, notes, delivered, dcalls, preq, pres>>

\* on_server_started, on_server_stopped, on_server_error
OnNotification(g, kind) ==
    CASE kind = "started" ->
            [g EXCEPT !.server_running = TRUE, !.start_enabled = FALSE,
                      !.stop_enabled = TRUE, !.starting = FALSE]
      [] kind = "stopped" ->
            [g EXCEPT !.server_running = FALSE, !.start_enabled = TRUE,
                      !.stop_enabled = FALSE, !.starting = FALSE]
      [] OTHER ->
            [g EXCEPT !.start_enabled = TRUE, !.stop_enabled = g.server_running,
                      !.starting = FALSE]

\* the event loop of the GUI thread delivers the next queued notification of
\* the worker to its slot
G_Deliver ==
    /\ ~gui.quit
    /\ delivered < Len(notes)
    /\ delivered' = delivered + 1
    /\ gui' = OnNotification(gui, notes[delivered + 1].kind)
    /\ UNCHANGED <<threads, timewait, call, worker, cmds, notes, dcalls, preq, pres>>

\* cleanup_and_exit: stop_server of the worker if server_running, then
\* QApplication.quit(), after which no click and no notification is handled
G_CleanupAndExit ==
    /\ ~gui.quit
    /\ gui.server_running => Len(cmds) < MaxCmds
    /\ gui' = [gui EXCEPT !.quit = TRUE]
    /\ IF gui.server_running
       THEN /\ worker' = QThreadStart([worker EXCEPT !.operation = "stop"], Len(cmds) + 1)
            /\ cmds' = Append(cmds, [kind |-> "stop", launched |-> worker.pc = "idle",
                                     serial |-> PreviousNotified])
       ELSE UNCHANGED <<worker, cmds>>
    /\ UNCHANGED <<threads, timewait, call, notes, delivered, dcalls, preq, pres>>

GuiNext ==
    \/ ThreadStep
    \/ CallStep
    \/ WorkerStep
    \/ \E d \in Dirs, p \in Ports : G_StartServer(d, p)
    \/ G_StopServer
    \/ G_Deliver
    \/ G_CleanupAndExit

GuiSpec == Init /\ [][GuiNext]_vars

(***************************************************************************)
(* SecureHTTPRequestHandler.translate_path                                 *)
(* A path is a sequence of segment names; a string is a sequence of        *)
(* characters, so that startswith() is the prefix test the code performs.  *)
(***************************************************************************)
MaxSegs == 4        \* segments of a raw request path

\* the text between two slashes of a raw request path
RawSegs == {"", ".", "..", "%2e%2e", "%2fetc", "%00", "?q",
            "img", "peer", "out", "loop", "etc", "passwd"}

\* the characters of a (decoded) segment name
Chars(n) ==
    CASE n = "srv" -> <<"s", "r", "v">>
      [] n = "www" -> <<"w", "w", "w">>
      [] n = "www2" -> <<"w", "w", "w", "2">>
      [] n = "img" -> <<"i", "m", "g">>
      [] n = "peer" -> <<"p", "e", "e", "r">>
      [] n = "out" -> <<"o", "u", "t">>
      [] n = "loop" -> <<"l", "o", "o", "p">>
      [] n = "etc" -> <<"e", "t", "c">>
      [] n = "passwd" -> <<"p", "a", "s", "s", "w", "d">>
      [] OTHER -> <<n>>

\* the file system: the served root /srv/www, a sibling directory /srv/www2,
\* two symbolic links inside the root that lead out of it, and one that
\* points to itself
BaseDirectory == <<"srv", "www">>
Symlinks == [l \in {<<"srv", "www", "peer">>, <<"srv", "www", "out">>,
                    <<"srv", "www", "loop">>} |->
                CASE l[3] = "peer" -> <<"srv", "www2">>
                  [] l[3] = "out" -> <<"etc">>
                  [] OTHER -> l]

RECURSIVE Str(_)
\* str(path) of an absolute path
Str(path) ==
    IF path = <<>> THEN <<>>
    ELSE Str(SubSeq(path, 1, Len(path) - 1)) \o <<"/">> \o Chars(path[Len(path)])

\* str.startswith
StartsWith(a, b) == Len(b) <= Len(a) /\ SubSeq(a, 1, Len(b)) = b

\* path.split('?', 1)[0]: the query and everything after it is dropped
StripQuery(segs) ==
    IF \E i \in 1..Len(segs) : segs[i] = "?q"
    THEN LET i == CHOOSE j \in 1..Len(segs) :
                      segs[j] = "?q" /\ \A k \in 1..(j - 1) : segs[k] # "?q"
         IN Append(SubSeq(segs, 1, i - 1), "")
    ELSE segs

\* urllib.parse.unquote of one raw segment: the segments it decodes to
Unquote(seg) ==
    CASE seg = "%2e%2e" -> <<"..">>
      [] seg = "%2fetc" -> <<"", "etc">>
      [] seg = "%00" -> <<"NUL">>
      [] OTHER -> <<seg>>

RECURSIVE UnquoteAll(_)
UnquoteAll(segs) ==
    IF segs = <<>> THEN <<>>
    ELSE Unquote(Head(segs)) \o UnquoteAll(Tail(segs))

RECURSIVE NormComps(_, _, _)
\* posixpath.normpath: the loop over the components
NormComps(abs, comps, new) ==
    IF comps = <<>> THEN new
    ELSE LET c == Head(comps)
             rest == Tail(comps)
         IN IF c \in {"", "."} THEN NormComps(abs, rest, new)
            ELSE IF \/ c # ".."
                    \/ (~abs /\ new = <<>>)
                    \/ (new # <<>> /\ new[Len(new)] = "..")
                 THEN NormComps(abs, rest, Append(new, c))
            ELSE IF new # <<>>
                 THEN NormComps(abs, rest, SubSeq(new, 1, Len(new) - 1))
            ELSE NormComps(abs, rest, new)

Normpath(abs, comps) == NormComps(abs, comps, <<>>)

RECURSIVE JoinWords(_, _)
\* SimpleHTTPRequestHandler.translate_path: the words are joined to the
\* directory, skipping empty words, os.curdir and os.pardir
JoinWords(path, words) ==
    IF words = <<>> THEN path
    ELSE IF Head(words) \in {"", ".", ".."} THEN JoinWords(path, Tail(words))
    ELSE JoinWords(Append(path, Head(words)), Tail(words))

\* super().translate_path(path)
SuperTranslatePath(req) ==
    JoinWords(BaseDirectory, Normpath(req.abs, UnquoteAll(StripQuery(req.segs))))

RECURSIVE Resolve(_, _)
\* Path.resolve(), not strict: symbolic links are followed, components that
\* do not exist are kept, and so is a link that leads back to itself
Resolve(done, todo) ==
    IF todo = <<>> THEN done
    ELSE LET p == Append(done, Head(todo)) IN
         IF p \in DOMAIN Symlinks /\ Symlinks[p] # p
         THEN Resolve(Symlinks[p], Tail(todo))
         ELSE Resolve(p, Tail(todo))

\* Path.resolve() raises ValueError for a path with an embedded null byte
ResolveRaises(path) == \E i \in 1..Len(path) : path[i] = "NUL"

\* Path.resolve() meets a symbolic link loop: Python before 3.13 raises
\* RuntimeError, later versions raise nothing when not strict
ResolveLoop(path) ==
    \E k \in 1..Len(path) :
        LET p == SubSeq(path, 1, k) IN p \in DOMAIN Symlinks /\ Symlinks[p] = p

\* translate_path, line 32: the containment test
WithinBase(full, base) == StartsWith(full, base)

\* translate_path, lines 27-38
translate_path(req) ==
    LET translated_path == SuperTranslatePath(req) IN
    IF ResolveRaises(translated_path) THEN Str(BaseDirectory)
    ELSE LET full_path == Resolve(<<>>, translated_path) IN
         IF ~WithinBase(Str(full_path), Str(BaseDirectory))
         THEN Str(BaseDirectory)
         ELSE Str(full_path)

\* an exception that leaves translate_path, in the place of its result
Raised == <<"RuntimeError">>

\* what a call of translate_path can end with: its return value, or, for a
\* symbolic link loop on a Python that raises RuntimeError for it, that
\* exception, which the except clause of line 36 does not name
TranslateOutcomes(req) ==
    LET translated_path == SuperTranslatePath(req) IN
    IF ~ResolveRaises(translated_path) /\ ResolveLoop(translated_path)
    THEN {translate_path(req), Raised}
    ELSE {translate_path(req)}

RawPaths == UNION {[1..k -> RawSegs] : k \in 0..MaxSegs}

PathInit ==
    /\ LifeInit
    /\ preq \in [abs : BOOLEAN, segs : RawPaths]
    /\ pres = <<>>

\* a request handler calls translate_path on the raw path of its request
TranslatePath ==
    /\ pres = <<>>
    /\ pres' \in TranslateOutcomes(preq)
    /\ UNCHANGED <<lifeVars, preq>>

PathNext == TranslatePath

PathSpec == PathInit /\ [][PathNext]_vars

(***************************************************************************)
(* Properties                                                              *)
(***************************************************************************)
\* C1: whatever the raw request path, translate_path returns the base
\* directory itself or a path strictly below it (base directory, separator,
\* further segments), never a path outside the root tree.
C1_Confined ==
    pres \notin {<<>>, Raised} =>
        \/ pres = Str(BaseDirectory)
        \/ StartsWith(pres, Str(BaseDirectory) \o <<"/">>)

\* C2: every start_server command gets exactly one notification, which is
\* server_started or server_error: never two, and one once the worker thread
\* has gone idle again.
StartNotes(r) ==
    {i \in 1..Len(notes) : notes[i].req = r /\ notes[i].kind \in {"started", "error"}}

C2_ExactlyOne ==
    \A r \in 1..Len(cmds) :
        cmds[r].kind = "start" =>
            /\ Cardinality(StartNotes(r)) <= 1
            /\ (worker.pc = "idle" => Cardinality(StartNotes(r)) = 1)

\* C3: when every command was issued after the previous command's
\* notification had arrived, at most one instance created by the worker is
\* alive with a bound socket, and it is the one ServerWorker.server refers to.
Serial == \A i \in 1..Len(cmds) : cmds[i].serial

Active(t) == threads[t].owner = "worker" /\ IsAlive(t) /\ threads[t].sock = "open"

C3_AtMostOne ==
    Serial =>
        /\ Cardinality({t \in Tids : Active(t)}) <= 1
        /\ \A t \in Tids : Active(t) => worker.server = t

\* C4: when server_started is emitted, the socket of the instance created for
\* that start request has already been bound.
C4_BoundBeforeStarted ==
    \A i \in 1..Len(notes) :
        notes[i].kind = "started" =>
            /\ notes[i].t \in Tids
            /\ threads[notes[i].t].req = notes[i].req
            /\ notes[i].sock # "none"

C4_Witness ==
    \E i \in 1..Len(notes) : notes[i].kind = "started" /\ notes[i].sock = "open"

\* C5: when server_stopped is emitted for a held instance, its listening
\* socket is no longer open and its thread has terminated, unless the join of
\* stop() timed out.
C5_StoppedAfterClose ==
    \A i \in 1..Len(notes) :
        (notes[i].kind = "stopped" /\ notes[i].t # 0 /\ ~notes[i].timedout) =>
            (notes[i].sock # "open" /\ ~notes[i].alive)

C5_Witness ==
    \E i \in 1..Len(notes) :
        /\ notes[i].kind = "stopped" /\ notes[i].t # 0 /\ ~notes[i].timedout
        /\ notes[i].sock = "closed"

\* C6: on an instance whose bind failed, the startup event is never observable
\* before the error is recorded; a wait_for_startup that sees the event raises
\* that error, none returns True, and TimeoutError comes only from a wait
\* whose timeout elapsed with the event still unset.
C6_BindErrorRaised ==
    \A t \in Tids :
        threads[t].blocker # 0 =>
            /\ threads[t].server_started => threads[t].error # "none"
            /\ (call.op = "wait" /\ call.t = t /\ call.pc = "returned") =>
                   /\ call.res # "True"
                   /\ ~call.timedout => call.res = "OSError"

C6_Witness ==
    /\ call.op = "wait" /\ call.pc = "returned" /\ call.res = "OSError"
    /\ threads[call.t].blocker # 0

\* C7: once run() is invoked the startup event is eventually set, whether the
\* bind succeeds or fails, so that a caller waiting in wait_for_startup is
\* released; and after a failed bind run() returns and never serves.
Serving(t) == threads[t].pc \in {"serve", "loop", "handling"}

C7_StartupSignalled ==
    /\ \A t \in 1..MaxThreads :
          /\ (t \in Tids /\ threads[t].pc = "start")
                ~> (t \in Tids /\ threads[t].server_started)
          /\ (t \in Tids /\ threads[t].blocker # 0)
                ~> (t \in Tids /\ threads[t].pc = "done")
          /\ [](t \in Tids /\ threads[t].blocker # 0
                   => ~Serving(t) /\ ~threads[t].served /\ threads[t].sock = "none")
    /\ (call.op = "wait" /\ call.pc = "wait" /\ IsAlive(call.t)) ~> (call.pc # "wait")

C7_Witness ==
    \E t \in Tids :
        threads[t].blocker # 0 /\ threads[t].server_started /\ threads[t].pc = "done"

IsPrefix(a, b) == Len(a) <= Len(b) /\ SubSeq(b, 1, Len(a)) = a

StopSteps == <<"shutdown", "serve_returned", "close", "join">>

C9_StopOrder ==
    (call.op = "stop" /\ call.pre_alive /\ call.pre_httpd) =>
        /\ IsPrefix(call.log, StopSteps)
        /\ Len(call.log) >= 2 => threads[call.t].pc \in {"ret", "done"}
        /\ Len(call.log) >= 3 => threads[call.t].sock = "closed"
        /\ call.pc = "returned" =>
              /\ call.log = StopSteps
              /\ call.res = "True" <=> call.done_at_ret
              /\ call.res = "True" => threads[call.t].pc = "done"
              /\ call.res = "False" => call.timedout

C9_Witness ==
    /\ call.op = "stop" /\ call.pre_alive /\ call.pre_httpd /\ call.pc = "returned"
    /\ call.res = "True" /\ threads[call.t].served

\* C10: once stop() has returned True on every instance that had bound a
\* port, the port is released, and a new instance for that port binds,
\* reaches Running and has wait_for_startup return True, also while closed
\* connections of the port linger in TIME_WAIT.
C10_RestartBinds ==
    /\ \A u \in Tids : threads[u].stop_ok => threads[u].sock # "open"
    /\ \A t \in Tids :
          (threads[t].clear /\ threads[t].pc \notin {"new", "start"}) =>
              /\ threads[t].blocker = 0 /\ threads[t].sock # "none"
              /\ (call.op = "wait" /\ call.t = t /\ call.pc = "returned"
                      /\ ~call.timedout) => call.res = "True"

C10_Witness ==
    \E t, u \in Tids :
        /\ u # t /\ threads[u].stop_ok /\ threads[u].served
        /\ threads[u].actual_port = threads[t].actual_port
        /\ threads[t].tw_at_bind /\ threads[t].pc = "loop"
        /\ call.op = "wait" /\ call.t = t /\ call.res = "True"

\* C11: every stop_server command, also one issued right after the previous
\* notification was handled while the worker's run() has not yet returned,
\* gets exactly one notification, server_stopped or server_error: never two,
\* and one once the worker thread has gone idle again.
StopNotes(r) ==
    {i \in 1..Len(notes) : notes[i].req = r /\ notes[i].kind \in {"stopped", "error"}}

C11_StopNotified ==
    \A r \in 1..Len(cmds) :
        cmds[r].kind = "stop" =>
            /\ Cardinality(StopNotes(r)) <= 1
            /\ (worker.pc = "idle" => Cardinality(StopNotes(r)) = 1)

\* ServerWorker.run(), line 169: the URL given to server_started.emit, built
\* from the worker's port field as read when the notification is emitted
EmittedUrl(n) == HttpUrl("localhost", n.port)

\* C12: the URL carried by a server_started notification equals the URL of the
\* runtime the start request created (ServerThread.url), for every requested
\* port, port 0 included.
C12_UrlMatches ==
    \A i \in 1..Len(notes) :
        notes[i].kind = "started" => EmittedUrl(notes[i]) = Url(notes[i].t)

\* C13: a construction of a ServerThread with a directory that does not exist
\* or is no directory creates no instance, so no socket is created, bound or
\* listened on for it: every instance that exists has a valid directory. In
\* the worker the failed construction emits server_error for the request and
\* run() goes on to return, never emitting server_started for it.
InvalidDirectory(d) == ~DirExists(d) \/ ~DirIsDir(d)

C13_InvalidDirectory ==
    [][ /\ \A t \in 1..Len(threads') : ~InvalidDirectory(threads'[t].directory)
        /\ (worker.pc = "construct" /\ worker'.pc # "construct"
                /\ InvalidDirectory(worker.directory))
            => /\ threads' = threads
               /\ Len(notes') = Len(notes) + 1
               /\ notes'[Len(notes')].kind = "error"
               /\ notes'[Len(notes')].req = worker.req
               /\ notes'[Len(notes')].t = 0
               /\ worker'.pc = "ret" ]_vars

C13_Witness ==
    /\ worker.pc = "ret" /\ InvalidDirectory(worker.directory)
    /\ notes # <<>> /\ notes[Len(notes)].kind = "error" /\ notes[Len(notes)].t = 0
    /\ notes[Len(notes)].req = worker.req

\* C14 as stated: url is None while the socket is not bound; once the socket
\* is bound it is "http://<host>:<port>" with the bound port, <host> being
\* localhost for the bind addresses 127.0.0.1 and 0.0.0.0 and the bind address
\* verbatim for every other one.
C14_UrlVerbatim ==
    \A t \in Tids :
        IF threads[t].sock = "none"
        THEN Url(t) = None
        ELSE Url(t) = HttpUrl(IF threads[t].bind_address \in {"127.0.0.1", "0.0.0.0"}
                              THEN "localhost" ELSE threads[t].bind_address,
                              threads[t].actual_port)

\* C14 amended: url is None until run() has assigned the bound server to
\* self.httpd, hence always while the socket is not bound; from then on, also
\* after the socket was closed, it is "http://<host>:<port>" with the bound
\* port, <host> being localhost if the address of the bound socket (the
\* wildcard for an empty bind address, the resolved address for a host name)
\* is 127.0.0.1 or 0.0.0.0, and that socket address otherwise, which for a
\* bind address given as another IP address is the bind address verbatim.
IpLiterals == {"127.0.0.1", "0.0.0.0", "192.168.1.5"}

C14_UrlFromSocket ==
    \A t \in Tids :
        /\ threads[t].sock = "none" => Url(t) = None
        /\ Url(t) = None <=> threads[t].pc \in {"new", "start", "bound", "except1", "except2"}
                             \/ threads[t].blocker # 0
        /\ Url(t) # None =>
              /\ Url(t)[4] = threads[t].actual_port
              /\ Url(t)[4] = (IF threads[t].port = 0 THEN ActualPort(t) ELSE threads[t].port)
              /\ Url(t)[2] = (CASE threads[t].bind_address \in {"127.0.0.1", "localhost"} -> "localhost"
                                [] threads[t].bind_address \in {"0.0.0.0", ""} -> "localhost"
                                [] OTHER -> threads[t].bind_address)
              /\ threads[t].bind_address \in IpLiterals \ {"127.0.0.1", "0.0.0.0"}
                    => Url(t)[2] = threads[t].bind_address

C14_Witness ==
    \E t, u \in Tids :
        /\ threads[t].bind_address = "" /\ Url(t) = HttpUrl("localhost", threads[t].actual_port)
        /\ threads[t].sock = "closed"
        /\ threads[u].bind_address = "192.168.1.5" /\ threads[u].sock = "open"
        /\ Url(u) = HttpUrl("192.168.1.5", FixedPort)

\* C15: while the request of one accepted connection is still being handled,
\* the runtime can accept a second connection: accepting is possible for an
\* instance whose handler is running.
C15_AcceptWhileHandling ==
    \A t \in Tids : threads[t].pc = "handling" => ENABLED Serve_Accept(t)

\* C16: stop() is not held up beyond its timeout by a running request handler:
\* a stop() call in progress whose instance is handling a request can take a
\* step of its own, going on or timing out, without waiting for the handler.
C16_StopBounded ==
    (call.op = "stop" /\ call.pc # "returned" /\ threads[call.t].pc = "handling")
        => ENABLED CallStep

\* C17: handling a request never terminates the server, whether the handler
\* sends its response (a file, the root's index, a 404) or raises: when the
\* handling ends the instance is still alive with its listening socket open,
\* its serve loop is back at the point where it accepts the next connection
\* (or sees a shutdown request), and ServerThread.error is still unset.
C17_RequestKeepsServing ==
    [][ \A t \in Tids :
            (threads[t].pc = "handling" /\ threads'[t].pc # "handling")
                => /\ threads'[t].pc = "loop"
                   /\ threads'[t].error = "none"
                   /\ threads'[t].sock = "open"
                   /\ threads'[t].httpd
                   /\ threads'[t].shutdown_request = threads[t].shutdown_request ]_vars

\* the only instance there is has ended the handling of one request, whose
\* connection lingers in TIME_WAIT, and is handling a later connection
C17_Witness ==
    /\ Len(threads) = 1
    /\ threads[1].pc = "handling" /\ threads[1].actual_port \in timewait
    /\ threads[1].error = "none" /\ threads[1].sock = "open"

\* C18: whenever translate_path finds the resolved path outside the root, or
\* the translation or canonicalization fails, it returns exactly the base
\* directory and no exception leaves it; and for the raw path
\* /../../etc/passwd the result is the base directory.
TraversalExample == [abs |-> TRUE, segs |-> <<"..", "..", "etc", "passwd">>]

C18_FallbackToBase ==
    pres # <<>> =>
        LET translated_path == SuperTranslatePath(preq) IN
        /\ pres # Raised
        /\ (ResolveRaises(translated_path) \/ ResolveLoop(translated_path))
              => pres = Str(BaseDirectory)
        /\ (/\ ~ResolveRaises(translated_path)
            /\ ~StartsWith(Str(Resolve(<<>>, translated_path)), Str(BaseDirectory)))
              => pres = Str(BaseDirectory)
        /\ preq = TraversalExample => pres = Str(BaseDirectory)

\* C19: the life of an instance. New (the Stopped an instance is created in):
\* not started; Starting: run() invoked, not yet bound; Failed: the bind
\* failed; Running: bound and no shutdown requested; Stopping: shutdown
\* requested or the serve loop left, until the socket is closed and the
\* thread has terminated; Stopped: after that.
LifeState(r) ==
    IF r.pc = "new" THEN "New"
    ELSE IF r.pc = "start" THEN "Starting"
    ELSE IF r.blocker # 0 THEN "Failed"
    ELSE IF r.pc = "done" /\ r.sock = "closed" THEN "Stopped"
    ELSE IF r.pc \in {"ret", "done"} \/ r.shutdown_request THEN "Stopping"
    ELSE "Running"

LifeEdges ==
    {<<"New", "Starting">>, <<"Starting", "Running">>, <<"Starting", "Failed">>,
     <<"Running", "Stopping">>, <<"Stopping", "Stopped">>}

\* C19: an instance changes its state only along New -> Starting -> Running
\* -> Stopping -> Stopped or Starting -> Failed, so that Failed and Stopped are
\* never left; instances are never removed or replaced; and every start
\* command the worker runs constructs a new instance, in state New, and
\* starts that instance and no earlier one.
C19_Lifecycle ==
    [][ /\ Len(threads') >= Len(threads)
        /\ \A t \in Tids :
              LifeState(threads'[t]) # LifeState(threads[t])
                  => <<LifeState(threads[t]), LifeState(threads'[t])>> \in LifeEdges
        /\ \A t \in (Len(threads) + 1)..Len(threads') : LifeState(threads'[t]) = "New"
        /\ (worker.pc = "construct" /\ worker'.pc = "tstart")
              => /\ Len(threads') = Len(threads) + 1
                 /\ worker'.server = Len(threads')
        /\ (worker.pc = "tstart" /\ worker'.pc # "tstart")
              => /\ LifeState(threads[worker.server]) = "New"
                 /\ threads[worker.server].req = worker.req
                 /\ LifeState(threads'[worker.server]) = "Starting" ]_vars

\* the worker's first instance has completed a stop, its second, constructed
\* for the next start command, is running
C19_Witness ==
    /\ Len(threads) = 2
    /\ LifeState(threads[1]) = "Stopped" /\ threads[1].owner = "worker"
    /\ LifeState(threads[2]) = "Running" /\ threads[2].owner = "worker"
    /\ threads[2].req > threads[1].req

\* C20: from the moment the GUI issues start_server until it has handled a
\* notification of the worker, the start button is disabled and it issues no
\* second start_server; and it never issues start_server while server_running
\* is true.
StartIssued ==
    Len(cmds') = Len(cmds) + 1 /\ cmds'[Len(cmds')].kind = "start"

C20_GuiSerializes ==
    [][ /\ gui'.starting => ~gui'.start_enabled
        /\ StartIssued => /\ ~gui.starting
                          /\ ~gui.server_running
                          /\ gui'.starting ]_vars

\* a second start_server is in flight, issued after the notification of an
\* earlier command was handled
C20_Witness ==
    /\ gui.starting /\ ~gui.start_enabled /\ ~gui.server_running
    /\ StartsIssued = 2 /\ cmds[Len(cmds)].kind = "start"
    /\ delivered > 0 /\ delivered = Len(notes)

\* C21: once a stop() on an instance whose thread was started and had not
\* terminated, also one still Starting with no listening socket yet, has
\* returned, that instance is not accepting: in no state in which the call
\* has returned to its caller has the instance an accepted connection in hand.
C21_NoAcceptAfterStop ==
    (call.op = "stop" /\ call.pc = "returned" /\ call.pre_alive)
        => threads[call.t].pc # "handling"

\* a command is in flight: issued, and no notification for it handled yet
InFlight ==
    \E r \in 1..Len(cmds) : ~\E i \in 1..delivered : notes[i].req = r

\* an instance created by the worker is alive with its listening socket open
WorkerListening ==
    \E t \in Tids :
        threads[t].owner = "worker" /\ IsAlive(t) /\ threads[t].sock = "open"

\* C22: whenever no command is in flight, the GUI's server_running is true
\* exactly when an instance created by the worker is alive and listening; and
\* once the GUI has handled the server_error of a start request, the instance
\* that request created is not listening.
C22_RunningMatches ==
    /\ (~gui.quit /\ ~InFlight) => (gui.server_running <=> WorkerListening)
    /\ \A i \in 1..delivered :
          (notes[i].kind = "error" /\ notes[i].t # 0 /\ cmds[notes[i].req].kind = "start")
              => threads[notes[i].t].sock # "open"

====
